---------------------------- MODULE Spec2Model ----------------------------
(***************************************************************************)
(* Model of index.py: the 3D model controller driven by an Arduino         *)
(* joystick over a serial line.                                            *)
(*                                                                         *)
(* Text is modelled as a sequence of one-character strings; a raw serial   *)
(* line is the bytes readline() returned, without the trailing newline     *)
(* (strip() removes it).  The byte "xFF" stands for a byte that is not     *)
(* valid UTF-8.                                                            *)
(*                                                                         *)
(* Floats are modelled in fixed point.  Positions are counted in units of  *)
(* 1/51200 (so that 0.05, 0.2 and (k/512)*0.1 are all whole numbers),      *)
(* angles in units of 1/256 degree (so that (k/512)*2.0 is whole).         *)
(***************************************************************************)
EXTENDS Integers, Sequences, FiniteSets, TLC

(***************************************************************************)
(* Bounds of the model.                                                    *)
(***************************************************************************)
MaxTokens == 4
MaxArrivals == 2
MaxTicks == 3
MaxEvents == 1
MaxAdvance == 1

(***************************************************************************)
(* Configuration constants (index.py lines 43-61), in model units.         *)
(***************************************************************************)
PosUnit == 51200
DegUnit == 256

JOYSTICK_CENTER == 512
JOYSTICK_MAX == 512
MOVEMENT_SPEED == PosUnit \div 10
ROTATION_SPEED == 2 * DegUnit
JUMP_HEIGHT == PosUnit \div 5
FALL_RATE == PosUnit \div 20
FULL_TURN == 360 * DegUnit
ADC_MAX == 1023

(***************************************************************************)
(* Text helpers: what bytes.decode, str.strip, str.split and int do.       *)
(***************************************************************************)
Digits == {"0", "1", "2", "3", "4", "5", "6", "7", "8", "9"}

Whitespace == {" "}

BadByte == "xFF"

DigitVal(c) ==
    CASE c = "0" -> 0 [] c = "1" -> 1 [] c = "2" -> 2 [] c = "3" -> 3
      [] c = "4" -> 4 [] c = "5" -> 5 [] c = "6" -> 6 [] c = "7" -> 7
      [] c = "8" -> 8 [] c = "9" -> 9

\* bytes.decode('utf-8'): fails on any byte that is not valid UTF-8.
Utf8Ok(bytes) == \A i \in 1..Len(bytes) : bytes[i] # BadByte

RECURSIVE LStrip(_)
LStrip(s) ==
    IF s # <<>> /\ Head(s) \in Whitespace THEN LStrip(Tail(s)) ELSE s

RECURSIVE RStrip(_)
RStrip(s) ==
    IF s # <<>> /\ s[Len(s)] \in Whitespace
    THEN RStrip(SubSeq(s, 1, Len(s) - 1))
    ELSE s

\* str.strip()
Strip(s) == RStrip(LStrip(s))

\* str.split(','): the pieces between the commas (always at least one piece).
RECURSIVE SplitFrom(_, _, _)
SplitFrom(s, i, cur) ==
    IF i > Len(s) THEN <<cur>>
    ELSE IF s[i] = "," THEN <<cur>> \o SplitFrom(s, i + 1, <<>>)
    ELSE SplitFrom(s, i + 1, Append(cur, s[i]))

Split(s) == SplitFrom(s, 1, <<>>)

\* The digits of an int() literal body: digits, with single underscores
\* allowed between digits only.
DigitBodyOk(b) ==
    /\ b # <<>>
    /\ \A i \in 1..Len(b) : b[i] \in Digits \cup {"_"}
    /\ b[1] # "_"
    /\ b[Len(b)] # "_"
    /\ \A i \in 1..(Len(b) - 1) : ~(b[i] = "_" /\ b[i + 1] = "_")

RECURSIVE DigitBodyVal(_, _)
DigitBodyVal(b, acc) ==
    IF b = <<>> THEN acc
    ELSE IF Head(b) = "_" THEN DigitBodyVal(Tail(b), acc)
    ELSE DigitBodyVal(Tail(b), 10 * acc + DigitVal(Head(b)))

\* A variant of int() that accepts no leading sign.
ParseIntUnsigned(tok) ==
    LET t == Strip(tok)
    IN  IF DigitBodyOk(t)
        THEN [ok |-> TRUE, val |-> DigitBodyVal(t, 0)]
        ELSE [ok |-> FALSE, val |-> 0]

\* int(token): surrounding whitespace is ignored, one leading sign is
\* accepted; anything else raises ValueError.
ParseInt(tok) ==
    LET t == Strip(tok)
        signed == t # <<>> /\ Head(t) \in {"+", "-"}
        body == IF signed THEN Tail(t) ELSE t
        mag == DigitBodyVal(body, 0)
    IN  IF DigitBodyOk(body)
        THEN [ok |-> TRUE, val |-> IF signed /\ Head(t) = "-" THEN 0 - mag ELSE mag]
        ELSE [ok |-> FALSE, val |-> 0]


\* A line of text built from tokens: the tokens joined by commas.
RECURSIVE Join(_)
Join(ts) ==
    IF ts = <<>> THEN <<>>
    ELSE IF Len(ts) = 1 THEN Head(ts)
    ELSE Head(ts) \o <<",">> \o Join(Tail(ts))

(***************************************************************************)
(* read_joystick_data (lines 232-270).  Its result is None, a sample       *)
(* tuple (x_axis, y_axis, button_pressed), or an exception that leaves     *)
(* the function.                                                           *)
(***************************************************************************)
None == [kind |-> "None", x_axis |-> 0, y_axis |-> 0, button_pressed |-> FALSE, exc |-> ""]

Sample(x, y, b) ==
    [kind |-> "sample", x_axis |-> x, y_axis |-> y, button_pressed |-> b, exc |-> ""]

Raise(e) == [kind |-> "raise", x_axis |-> 0, y_axis |-> 0, button_pressed |-> FALSE, exc |-> e]

\* A variant of the range check that looks at x_axis only.
InRangeXOnly(x_axis, y_axis) == 0 <= x_axis /\ x_axis <= ADC_MAX

\* Line 260: the range check on the two axes (the button is not checked).
InRange(x_axis, y_axis) ==
    0 <= x_axis /\ x_axis <= ADC_MAX /\ 0 <= y_axis /\ y_axis <= ADC_MAX

\* Line 264: the button reads LOW (0) when pressed.
ButtonPressed(button) == button = 0

\* Lines 251-266: the body of the try block, given the bytes readline()
\* returned.
ParseLine(raw) ==
    IF ~Utf8Ok(raw) THEN Raise("UnicodeDecodeError")
    ELSE LET line == Strip(raw)
             parts == Split(line)
             ints == [i \in 1..Len(parts) |-> ParseInt(parts[i])]
         IN  IF line = <<>> THEN None
             ELSE IF Len(parts) # 3 \/ \E i \in 1..Len(parts) : ~ints[i].ok
             THEN Raise("ValueError")
             ELSE IF ~InRange(ints[1].val, ints[2].val) THEN None
             ELSE Sample(ints[1].val, ints[2].val, ButtonPressed(ints[3].val))

\* Line 268: the exceptions the except clause names.
CaughtExceptions == {"ValueError", "SerialException", "UnicodeDecodeError"}

\* Lines 249-270: try/except around the body; a caught exception gives None,
\* any other leaves the function.
TryExcept(outcome) ==
    IF outcome.kind = "raise" /\ outcome.exc \in CaughtExceptions THEN None ELSE outcome

\* A variant of the guard without the test for None.
NoDataAvailableUnguarded(s, in_waiting) == in_waiting = 0

\* Line 246: "ser is None or ser.in_waiting == 0".
NoDataAvailable(s, in_waiting) == s = "None" \/ in_waiting = 0

(***************************************************************************)
(* ModelController.update_from_joystick (lines 288-326).                   *)
(***************************************************************************)
Abs(n) == IF n < 0 THEN 0 - n ELSE n

Max(a, b) == IF a >= b THEN a ELSE b

Min(a, b) == IF a <= b THEN a ELSE b

\* A variant of the normalization without the deadzone.
NormalizeNoDeadzone(axis) == axis - JOYSTICK_CENTER

\* Lines 301-309: the normalized axis value, as its numerator over
\* JOYSTICK_MAX; inside the deadzone |k / 512| < 0.1 it is 0.
Normalize(axis) ==
    LET k == axis - JOYSTICK_CENTER
    IN  IF Abs(k) * 10 < JOYSTICK_MAX THEN 0 ELSE k

\* A variant of the x step that normalizes by the full ADC range.
MoveXFullRange(x, axis) == x + (Normalize(axis) * MOVEMENT_SPEED) \div ADC_MAX

\* Line 312: position[0] += x_normalized * MOVEMENT_SPEED.
MoveX(x, axis) == x + (Normalize(axis) * MOVEMENT_SPEED) \div JOYSTICK_MAX

\* A variant of the wrap with the remainder of C's fmod, which keeps the
\* sign of the angle.
WrapYawTruncated(yaw) ==
    IF yaw < 0 THEN 0 - ((0 - yaw) % FULL_TURN) ELSE yaw % FULL_TURN

\* Line 318: rotation[1] %= 360 (Python's %: the result has the sign of 360).
WrapYaw(yaw) == yaw % FULL_TURN

\* Lines 315-318: rotation[1] += y_normalized * ROTATION_SPEED, then the wrap.
TurnYaw(yaw, axis) == WrapYaw(yaw + (Normalize(axis) * ROTATION_SPEED) \div JOYSTICK_MAX)

\* A variant of the gravity step without the floor.
FallUnclamped(y) == y - FALL_RATE

\* Line 326: one step of gravity from a height above the ground.
Fall(y) == Max(0, y - FALL_RATE)

\* A variant of the vertical step that jumps from the ground only.
VerticalGrounded(y, pressed) ==
    IF pressed /\ y = 0 THEN y + JUMP_HEIGHT
    ELSE IF y > 0 THEN Fall(y) ELSE y

\* Lines 321-326: the jump button, else gravity.
Vertical(y, pressed) ==
    IF pressed THEN y + JUMP_HEIGHT
    ELSE IF y > 0 THEN Fall(y) ELSE y

\* A variant of the update without the test for None, which reads the
\* axes and the button of whatever it is given.
UpdateFromJoystickUnguarded(pos, rot, jd) ==
    [position |-> <<MoveX(pos[1], jd.x_axis), Vertical(pos[2], jd.button_pressed), pos[3]>>,
     rotation |-> <<rot[1], TurnYaw(rot[2], jd.y_axis), rot[3]>>]

\* Lines 295-326: the new (position, rotation) for a sample or None.
UpdateFromJoystick(pos, rot, jd) ==
    IF jd.kind = "None" THEN [position |-> pos, rotation |-> rot]
    ELSE [position |-> <<MoveX(pos[1], jd.x_axis), Vertical(pos[2], jd.button_pressed), pos[3]>>,
          rotation |-> <<rot[1], TurnYaw(rot[2], jd.y_axis), rot[3]>>]


(***************************************************************************)
(* State.                                                                  *)
(*   pc            where main() is: "load_model", "init_serial",           *)
(*                 "loop_test" (line 380), "events" (382), "in_waiting"    *)
(*                 (246), "readline" (251), "blocked" (inside readline,    *)
(*                 waiting for bytes), "update" (391), "render" (394),     *)
(*                 "cleanup" (407), "exited"                               *)
(*   exit_status   the process exit status, -1 while it runs               *)
(*   running       the loop flag of main()                                 *)
(*   scene         "unloaded", "loaded" or "released"                      *)
(*   ser           serial_connection: "unopened", "None", "open", "closed" *)
(*   device        the serial device: "present" or "lost"                  *)
(*   buf_lines     complete lines in the receive buffer, oldest first      *)
(*   buf_partial   bytes received after the last newline                   *)
(*   in_flight     the rest of a line whose first bytes have arrived       *)
(*   events        the pygame event queue                                  *)
(*   model_file    what is at MODEL_PATH: "ok", "missing", "no_meshes"     *)
(*                 (a file without meshes) or "parse_error"                *)
(*   joystick_data the value read_joystick_data returned this tick         *)
(*   position, rotation, velocity   the ModelController fields             *)
(* History, not read by the program:                                       *)
(*   ticks, frames loop iterations begun, frames drawn                     *)
(*   sent          the tokens of the line under test (decoder runs)        *)
(*   arrived       every complete line that entered the buffer, in order   *)
(*   consumed      every complete line readline() returned, in order       *)
(*   since         since the last change of the channel: k lines were      *)
(*                 buffered then, n reads completed, c lines consumed      *)
(*   before        position and rotation as they were when the last call  *)
(*                 of update_from_joystick began                           *)
(*   n_arrivals, posted   counters for the bounds                          *)
(*   tick_reads, tick_applied   lines consumed / samples applied in the    *)
(*                 current tick                                            *)
(***************************************************************************)
VARIABLES pc, exit_status, running, scene, ser, device, buf_lines, buf_partial,
          in_flight, events, joystick_data, position, rotation, velocity,
          ticks, frames, sent, model_file, arrived, consumed, since, n_arrivals, posted,
          tick_reads, tick_applied, before

actor == <<position, rotation, velocity>>
chan == <<device, buf_lines, buf_partial, in_flight>>
hist == <<sent, model_file, arrived, consumed, since, n_arrivals, posted>>
tick_hist == <<tick_reads, tick_applied, before>>
vars == <<pc, exit_status, running, scene, ser, events, joystick_data, actor, chan,
          ticks, frames, hist, tick_hist>>

LoopPcs == {"loop_test", "events", "in_waiting", "readline", "blocked", "update", "render"}

NoFlight == [pending |-> FALSE, rest |-> <<>>]

\* ModelController.__init__ (lines 282-286).
Zero3 == <<0, 0, 0>>

\* ser.in_waiting: the number of bytes in the receive buffer (each complete
\* line counts its newline).
RECURSIVE BytesOf(_)
BytesOf(ls) == IF ls = <<>> THEN 0 ELSE Len(Head(ls)) + 1 + BytesOf(Tail(ls))

InWaiting == BytesOf(buf_lines) + Len(buf_partial)

\* The attribute in_waiting of serial_connection; None has no such
\* attribute (-1 stands for the AttributeError of reading it).
InWaitingOf(s) == IF s = "open" THEN InWaiting ELSE -1

(***************************************************************************)
(* The lines the joystick sends in the loop model.                         *)
(***************************************************************************)
LinePressed == <<"6", "1", "2", ",", "5", "1", "2", ",", "0">>
LineReleased == <<"4", "1", "2", ",", "4", "0", "0", ",", "1">>
LineButton2 == <<"5", "1", "2", ",", "0", ",", "2">>
LineGarbage == <<"1", "0", "2", "4", ",", "a">>

LoopLines == {LinePressed, LineReleased, LineButton2, LineGarbage}

\* The lines that may arrive in two pieces.
SplitLines == {LinePressed}

\* Where a line may be cut when its first bytes arrive ahead of the rest:
\* before its last two bytes, or just before its newline.
Cuts(l) == {Len(l) - 2, Len(l)}

EventKinds == {"QUIT", "K_ESCAPE", "K_OTHER"}

ModelFiles == {"ok", "missing", "no_meshes", "parse_error"}

Init ==
    /\ pc = "load_model"
    /\ exit_status = -1
    /\ running = FALSE
    /\ scene = "unloaded"
    /\ ser = "unopened"
    /\ device = "present"
    /\ buf_lines = <<>>
    /\ buf_partial = <<>>
    /\ in_flight = NoFlight
    /\ events = <<>>
    /\ joystick_data = None
    /\ position = Zero3
    /\ rotation = Zero3
    /\ velocity = Zero3
    /\ ticks = 0
    /\ frames = 0
    /\ sent = <<>>
    /\ model_file \in ModelFiles
    /\ arrived = <<>>
    /\ consumed = <<>>
    /\ since = [k |-> 0, n |-> 0, c |-> 0]
    /\ n_arrivals = 0
    /\ posted = 0
    /\ tick_reads = 0
    /\ tick_applied = 0
    /\ before = [position |-> position, rotation |-> rotation]

\* The process ends with the given status.
Exit(status) ==
    /\ pc' = "exited"
    /\ exit_status' = status

(***************************************************************************)
(* Setup (main, lines 346-378).                                            *)
(***************************************************************************)
\* A variant of load_3d_model that checks only that the file exists.
FatalIfMissing(file) == file = "missing"

\* load_3d_model (lines 149-172): a missing file (149), a file with no
\* meshes (160) and a file pyassimp cannot parse (170) are fatal.
Fatal(file) == file \in {"missing", "no_meshes", "parse_error"}

\* load_3d_model (lines 135-172), called at line 359: a fatal error ends in
\* sys.exit(1); otherwise the scene is returned, such as it is.
LoadModel ==
    /\ pc = "load_model"
    /\ IF Fatal(model_file)
       THEN /\ Exit(1)
            /\ UNCHANGED scene
       ELSE /\ scene' = "loaded"
            /\ pc' = "init_serial"
            /\ UNCHANGED exit_status
    /\ UNCHANGED <<running, ser, events, joystick_data, actor, chan, ticks, frames,
                   hist, tick_hist>>

\* What initialize_serial returns when serial.Serial raises (line 229).
OpenFailed == "None"

\* initialize_serial (lines 207-229), then lines 365-378: the controller is
\* created with all fields zero and running is set.
InitSerial ==
    /\ pc = "init_serial"
    /\ \E opened \in BOOLEAN : ser' = IF opened THEN "open" ELSE OpenFailed
    /\ position' = Zero3
    /\ rotation' = Zero3
    /\ velocity' = Zero3
    /\ running' = TRUE
    /\ pc' = "loop_test"
    /\ UNCHANGED <<exit_status, scene, events, joystick_data, chan, ticks, frames, hist,
                   tick_hist>>

(***************************************************************************)
(* The main loop (lines 380-404), one action per step of a tick.           *)
(***************************************************************************)
\* Line 380: "while running".
LoopTest ==
    /\ pc = "loop_test"
    /\ IF running
       THEN /\ ticks < MaxTicks
            /\ pc' = "events"
            /\ ticks' = ticks + 1
            /\ tick_reads' = 0
            /\ tick_applied' = 0
            /\ UNCHANGED before
       ELSE /\ pc' = "cleanup"
            /\ UNCHANGED <<ticks, tick_hist>>
    /\ UNCHANGED <<exit_status, running, scene, ser, events, joystick_data, actor, chan,
                   frames, hist>>

\* Lines 383-387: does this event end the loop?
IsQuit(e) == e = "QUIT" \/ e = "K_ESCAPE"

\* Lines 382-387: every queued event is taken; QUIT or ESC clears running.
HandleEvents ==
    /\ pc = "events"
    /\ running' = IF \E i \in 1..Len(events) : IsQuit(events[i]) THEN FALSE ELSE running
    /\ events' = <<>>
    /\ pc' = "in_waiting"
    /\ UNCHANGED <<exit_status, scene, ser, joystick_data, actor, chan, ticks, frames,
                   hist, tick_hist>>

\* One more completed call of read_joystick_data, which consumed took lines.
Counted(took) == [since EXCEPT !.n = @ + 1, !.c = @ + took]

\* Lines 390, 246-247: the guard of read_joystick_data.  Reading in_waiting
\* of a lost device raises SerialException, and reading it of None would
\* raise AttributeError; line 246 is outside the try block, so either
\* exception leaves main() and the entry point exits with status 1
\* (lines 426-430).
ReadCheck ==
    /\ pc = "in_waiting"
    /\ IF ser = "open" /\ device = "lost"
       THEN /\ Exit(1)
            /\ UNCHANGED <<joystick_data, since>>
       ELSE IF NoDataAvailable(ser, InWaitingOf(ser))
       THEN /\ joystick_data' = None
            /\ pc' = "update"
            /\ since' = Counted(0)
            /\ UNCHANGED exit_status
       ELSE IF ser # "open"
       THEN /\ Exit(1)
            /\ UNCHANGED <<joystick_data, since>>
       ELSE /\ pc' = "readline"
            /\ UNCHANGED <<exit_status, joystick_data, since>>
    /\ UNCHANGED <<running, scene, ser, events, actor, chan, ticks, frames, sent,
                   model_file, arrived, consumed, n_arrivals, posted, tick_hist>>

\* A variant of the read that empties the buffer.
AfterReadlineDrain(ls) == <<>>

\* A variant of the read that leaves the line in the buffer.
AfterReadlineKeep(ls) == ls

\* What readline() leaves in the buffer: it takes the oldest line only.
AfterReadline(ls) == Tail(ls)

\* The value read_joystick_data hands back to main(), or the exit it causes
\* when an exception leaves it.
Return(result) ==
    IF result.kind = "raise"
    THEN /\ Exit(1)
         /\ UNCHANGED joystick_data
    ELSE /\ joystick_data' = result
         /\ pc' = "update"
         /\ UNCHANGED exit_status

\* Lines 251-270 with a complete line buffered, or with the device lost
\* (readline raises SerialException, which the except clause catches).
ReadLine ==
    /\ pc \in {"readline", "blocked"}
    /\ device = "lost" \/ buf_lines # <<>>
    /\ IF device = "lost"
       THEN /\ Return(TryExcept(Raise("SerialException")))
            /\ since' = Counted(0)
            /\ UNCHANGED <<buf_lines, consumed, tick_reads>>
       ELSE /\ Return(TryExcept(ParseLine(Head(buf_lines))))
            /\ buf_lines' = AfterReadline(buf_lines)
            /\ consumed' = consumed \o SubSeq(buf_lines, 1, Len(buf_lines) - Len(buf_lines'))
            /\ since' = Counted(Len(buf_lines) - Len(buf_lines'))
            /\ tick_reads' = tick_reads + (Len(buf_lines) - Len(buf_lines'))
    /\ UNCHANGED <<running, scene, ser, events, actor, device, buf_partial, in_flight,
                   ticks, frames, sent, model_file, arrived, n_arrivals, posted,
                   tick_applied, before>>

\* Line 251 with bytes buffered but no newline among them: readline() waits
\* for the rest of the line, up to SERIAL_TIMEOUT (line 45, line 221).
ReadLineBlock ==
    /\ pc = "readline"
    /\ device = "present"
    /\ buf_lines = <<>>
    /\ pc' = "blocked"
    /\ UNCHANGED <<exit_status, running, scene, ser, events, joystick_data, actor, chan,
                   ticks, frames, hist, tick_hist>>

\* The timeout of readline() expires: it returns the bytes it has.
ReadLineTimeout ==
    /\ pc = "blocked"
    /\ device = "present"
    /\ buf_lines = <<>>
    /\ Return(TryExcept(ParseLine(buf_partial)))
    /\ buf_partial' = <<>>
    /\ since' = Counted(0)
    /\ UNCHANGED <<running, scene, ser, events, actor, device, buf_lines, in_flight,
                   ticks, frames, sent, model_file, arrived, consumed, n_arrivals,
                   posted, tick_hist>>

\* Line 391: controller.update_from_joystick(joystick_data).
Update ==
    /\ pc = "update"
    /\ LET new == UpdateFromJoystick(position, rotation, joystick_data)
       IN  /\ position' = new.position
           /\ rotation' = new.rotation
    /\ tick_applied' = tick_applied + (IF joystick_data.kind = "sample" THEN 1 ELSE 0)
    /\ before' = [position |-> position, rotation |-> rotation]
    /\ pc' = "render"
    /\ UNCHANGED <<exit_status, running, scene, ser, events, joystick_data, velocity,
                   chan, ticks, frames, hist, tick_reads>>

\* A variant of the render step that clears the angles once they are drawn.
RenderResetting ==
    /\ pc = "render"
    /\ frames' = frames + 1
    /\ rotation' = Zero3
    /\ pc' = "loop_test"
    /\ UNCHANGED <<exit_status, running, scene, ser, events, joystick_data, position,
                   velocity, chan, ticks, hist, tick_hist>>

\* Lines 394-404: clear, draw the model under the transform, flip, pace.
Render ==
    /\ pc = "render"
    /\ frames' = frames + 1
    /\ pc' = "loop_test"
    /\ UNCHANGED <<exit_status, running, scene, ser, events, joystick_data, actor, chan,
                   ticks, hist, tick_hist>>

\* Lines 407-413: release the mesh, close the channel if there is one; main
\* returns and the process ends with status 0.
Cleanup ==
    /\ pc = "cleanup"
    /\ scene' = IF scene = "loaded" THEN "released" ELSE scene
    /\ ser' = IF ser = "open" THEN "closed" ELSE ser
    /\ Exit(0)
    /\ UNCHANGED <<running, events, joystick_data, actor, chan, ticks, frames, hist,
                   tick_hist>>

\* Lines 423-425: Ctrl-C anywhere inside main() ends the process with
\* status 0.
Interrupt ==
    /\ pc # "exited"
    /\ Exit(0)
    /\ UNCHANGED <<running, scene, ser, events, joystick_data, actor, chan, ticks,
                   frames, hist, tick_hist>>

(***************************************************************************)
(* The environment: the joystick, the serial device and the user.          *)
(***************************************************************************)
Receiving == pc \in LoopPcs /\ ser = "open" /\ device = "present"

\* The channel changed: k lines are buffered now.
Changed(k) == [k |-> k, n |-> 0, c |-> 0]

\* A whole line, newline included, reaches the receive buffer.
ArriveLine ==
    /\ Receiving
    /\ ~in_flight.pending
    /\ n_arrivals < MaxArrivals
    /\ \E l \in LoopLines :
         /\ buf_lines' = Append(buf_lines, l)
         /\ arrived' = Append(arrived, l)
    /\ n_arrivals' = n_arrivals + 1
    /\ since' = Changed(Len(buf_lines'))
    /\ UNCHANGED <<pc, exit_status, running, scene, ser, events, joystick_data, actor,
                   device, buf_partial, in_flight, ticks, frames, sent, model_file,
                   consumed, posted, tick_hist>>

\* The first bytes of a line reach the buffer; the rest is still on the wire.
ArrivePartial ==
    /\ Receiving
    /\ ~in_flight.pending
    /\ n_arrivals < MaxArrivals
    /\ \E l \in SplitLines : \E cut \in Cuts(l) :
         /\ buf_partial' = SubSeq(l, 1, cut)
         /\ in_flight' = [pending |-> TRUE, rest |-> SubSeq(l, cut + 1, Len(l))]
    /\ n_arrivals' = n_arrivals + 1
    /\ UNCHANGED <<pc, exit_status, running, scene, ser, events, joystick_data, actor,
                   device, buf_lines, ticks, frames, sent, model_file, arrived,
                   consumed, since, posted, tick_hist>>

\* The rest of the line arrives, newline included: with what is still
\* buffered of its first bytes it forms a complete line.
ArriveRest ==
    /\ Receiving
    /\ in_flight.pending
    /\ buf_lines' = Append(buf_lines, buf_partial \o in_flight.rest)
    /\ arrived' = Append(arrived, buf_partial \o in_flight.rest)
    /\ buf_partial' = <<>>
    /\ in_flight' = NoFlight
    /\ since' = Changed(Len(buf_lines'))
    /\ UNCHANGED <<pc, exit_status, running, scene, ser, events, joystick_data, actor,
                   device, ticks, frames, sent, model_file, consumed, n_arrivals,
                   posted, tick_hist>>

\* The serial device goes away (unplugged, out of radio range).
Disconnect ==
    /\ pc \in LoopPcs
    /\ ser = "open"
    /\ device = "present"
    /\ device' = "lost"
    /\ since' = Changed(0)
    /\ UNCHANGED <<pc, exit_status, running, scene, ser, events, joystick_data, actor,
                   buf_lines, buf_partial, in_flight, ticks, frames, sent, model_file,
                   arrived, consumed, n_arrivals, posted, tick_hist>>

\* The user closes the window or presses a key.
PostEvent ==
    /\ pc \in LoopPcs
    /\ posted < MaxEvents
    /\ \E e \in EventKinds : events' = Append(events, e)
    /\ posted' = posted + 1
    /\ UNCHANGED <<pc, exit_status, running, scene, ser, joystick_data, actor, chan,
                   ticks, frames, sent, model_file, arrived, consumed, since,
                   n_arrivals, tick_hist>>

Next ==
    \/ LoadModel
    \/ InitSerial
    \/ LoopTest
    \/ HandleEvents
    \/ ReadCheck
    \/ ReadLine
    \/ ReadLineBlock
    \/ ReadLineTimeout
    \/ Update
    \/ Render
    \/ Cleanup
    \/ Interrupt
    \/ ArriveLine
    \/ ArrivePartial
    \/ ArriveRest
    \/ Disconnect
    \/ PostEvent

Spec == Init /\ [][Next]_vars

(***************************************************************************)
(* The decoder on its own: one line is buffered and read_joystick_data     *)
(* reads it.  The line is built from tokens of a table that records, next  *)
(* to each token's text, what kind of token it is and the number it        *)
(* writes:                                                                 *)
(*   "dec"     an unsigned decimal, as the wire format has them            *)
(*   "signed"  a decimal with a leading sign                               *)
(*   "padded"  a decimal with a blank before it                            *)
(*   "nonint"  not an integer (val is unused)                              *)
(***************************************************************************)
Tok(chars, kind, val) == [chars |-> chars, kind |-> kind, val |-> val]

Tokens ==
    { Tok(<<"0">>, "dec", 0),
      Tok(<<"1">>, "dec", 1),
      Tok(<<"2">>, "dec", 2),
      Tok(<<"1", "0", "2", "3">>, "dec", 1023),
      Tok(<<"1", "0", "2", "4">>, "dec", 1024),
      Tok(<<"+", "7">>, "signed", 7),
      Tok(<<"-", "1">>, "signed", -1),
      Tok(<<" ", "5">>, "padded", 5),
      Tok(<<"a">>, "nonint", 0),
      Tok(<<>>, "nonint", 0),
      Tok(<<BadByte>>, "nonint", 0) }

TokenSeqs == UNION {[1..n -> Tokens] : n \in 1..MaxTokens}

LineOf(ts) == Join([i \in 1..Len(ts) |-> ts[i].chars])

InitDecode ==
    /\ pc = "readline"
    /\ exit_status = -1
    /\ running = TRUE
    /\ scene = "loaded"
    /\ ser = "open"
    /\ device = "present"
    /\ sent \in TokenSeqs
    /\ model_file = "ok"
    /\ buf_lines = <<LineOf(sent)>>
    /\ buf_partial = <<>>
    /\ in_flight = NoFlight
    /\ events = <<>>
    /\ joystick_data = None
    /\ position = Zero3
    /\ rotation = Zero3
    /\ velocity = Zero3
    /\ ticks = 1
    /\ frames = 0
    /\ arrived = buf_lines
    /\ consumed = <<>>
    /\ since = [k |-> 1, n |-> 0, c |-> 0]
    /\ n_arrivals = 1
    /\ posted = 0
    /\ tick_reads = 0
    /\ tick_applied = 0
    /\ before = [position |-> position, rotation |-> rotation]

NextDecode == ReadLine

SpecDecode == InitDecode /\ [][NextDecode]_vars

\* The decoder has returned.
Decoded == pc # "readline"

\* The line under test is in the wire format "x,y,b": three unsigned
\* decimals, x and y in [0,1023], b in {0,1}.
WireFormat ==
    /\ Len(sent) = 3
    /\ \A i \in 1..3 : sent[i].kind = "dec"
    /\ sent[1].val \in 0..1023
    /\ sent[2].val \in 0..1023
    /\ sent[3].val \in {0, 1}

\* Some token of the line is not an integer, the line has not three tokens,
\* or its x or y is a number outside [0,1023].
Malformed ==
    \/ Len(sent) # 3
    \/ \E i \in 1..Len(sent) : sent[i].kind = "nonint"
    \/ \E i \in 1..Min(2, Len(sent)) :
          sent[i].kind # "nonint" /\ sent[i].val \notin 0..1023

\* C3: decoding a wire-format line "x,y,b" yields the sample
\* (x, y, pressed = (b = 0)); decoding a line with a non-integer token, a
\* token count other than three, or x or y outside [0,1023] yields None; and
\* no error leaves the decoder.
C3_Decode ==
    Decoded =>
        /\ pc = "update"
        /\ exit_status = -1
        /\ WireFormat =>
             joystick_data = Sample(sent[1].val, sent[2].val, sent[3].val = 0)
        /\ Malformed => joystick_data = None

C3_Witness ==
    /\ Decoded
    /\ WireFormat
    /\ sent[1].val = 1023
    /\ sent[3].val = 0
    /\ joystick_data = Sample(1023, sent[2].val, TRUE)

\* C4 as stated: every line that does not match the wire format is dropped.
C4_AsStated == (Decoded /\ ~WireFormat) => joystick_data = None

\* C4, amended: a line that does not match the wire format is dropped
\* exactly when it is malformed (a non-integer token, not three tokens, or
\* an x or y whose value is outside [0,1023]); otherwise it is decoded with
\* each token's numeric value, a leading sign or blank notwithstanding, and
\* a button field other than 0 reads as released.
C4_Dropped ==
    (Decoded /\ ~WireFormat) =>
        IF Malformed
        THEN joystick_data = None
        ELSE joystick_data = Sample(sent[1].val, sent[2].val, sent[3].val = 0)

C4_Witness ==
    /\ Decoded
    /\ Len(sent) = 3
    /\ sent[1].kind = "signed"
    /\ sent[3].val = 2
    /\ joystick_data = Sample(7, sent[2].val, FALSE)

(***************************************************************************)
(* The state transition on its own: update_from_joystick is applied to     *)
(* states and samples drawn from grids, MaxAdvance + 1 times in a row.     *)
(* The heights include values between the multiples of the fall rate,      *)
(* which the float arithmetic of the program reaches                       *)
(* (0.2 - 0.05 - 0.05 - 0.05 - 0.05 is 1.4e-17 in floats).                 *)
(***************************************************************************)
GridX == {0, 1000}
GridY == {0, 1, (3 * PosUnit) \div 100, FALL_RATE, JUMP_HEIGHT}
GridYaw == {0, DegUnit, 359 * DegUnit, FULL_TURN - 1}
AxesX == {460, 461, 563, 564, 612}
AxesY == {0, 461, 512, 564, 1023}

Inputs == {None} \cup {Sample(x, y, b) : x \in AxesX, y \in AxesY, b \in BOOLEAN}

InitAdvance ==
    /\ pc = "update"
    /\ exit_status = -1
    /\ running = TRUE
    /\ scene = "loaded"
    /\ ser = "open"
    /\ device = "present"
    /\ sent = <<>>
    /\ model_file = "ok"
    /\ buf_lines = <<>>
    /\ buf_partial = <<>>
    /\ in_flight = NoFlight
    /\ events = <<>>
    /\ joystick_data \in Inputs
    /\ position \in {<<x, y, 0>> : x \in GridX, y \in GridY}
    /\ rotation \in {<<0, yaw, 0>> : yaw \in GridYaw}
    /\ velocity = Zero3
    /\ ticks = 0
    /\ frames = 0
    /\ arrived = <<>>
    /\ consumed = <<>>
    /\ since = [k |-> 0, n |-> 0, c |-> 0]
    /\ n_arrivals = 0
    /\ posted = 0
    /\ tick_reads = 0
    /\ tick_applied = 0
    /\ before = [position |-> position, rotation |-> rotation]

\* The next tick brings the next sample, or none.
Feed ==
    /\ pc = "render"
    /\ ticks < MaxAdvance
    /\ ticks' = ticks + 1
    /\ joystick_data' \in Inputs
    /\ pc' = "update"
    /\ tick_applied' = 0
    /\ UNCHANGED <<exit_status, running, scene, ser, events, actor, chan, frames, hist,
                   tick_reads, before>>

NextAdvance == Update \/ Feed

SpecAdvance == InitAdvance /\ [][NextAdvance]_vars

\* update_from_joystick has just run.
Updated == pc = "render"

\* The call that has just run was given a sample with the button released.
FellWith == joystick_data.kind = "sample" /\ ~joystick_data.button_pressed

\* C8: position.y >= 0 in every state, whatever samples and no-sample
\* ticks came before; a fall step (a sample with the button released) from
\* a height strictly between 0 and the fall rate ends at exactly 0.
C8_Floor ==
    /\ position[2] >= 0
    /\ (Updated /\ FellWith /\ 0 < before.position[2] /\ before.position[2] < FALL_RATE)
         => position[2] = 0

C8_Witness ==
    /\ Updated
    /\ FellWith
    /\ before.position[2] = (3 * PosUnit) \div 100
    /\ position[2] = 0

\* The yaw step of a sample: ny * ROTATION_SPEED with ny = (axis_y - 512) / 512,
\* taken as 0 inside the deadzone, in units of 1/256 degree.
YawStepOf(axis_y) ==
    IF Abs(axis_y - 512) * 10 < 512 THEN 0 ELSE ((axis_y - 512) * 2 * DegUnit) \div 512

\* C9: rotation.yaw is in [0,360) in every state; a transition with a sample
\* leaves yaw congruent to yaw + ny * ROTATION_SPEED modulo 360 (it wraps in
\* either direction and never clamps): 0 with a -2 step gives 358, and 359
\* with a +2 step wraps to 1.
C9_Yaw ==
    /\ 0 <= rotation[2] /\ rotation[2] < 360 * DegUnit
    /\ (Updated /\ joystick_data.kind = "sample") =>
         \E m \in {-1, 0, 1} :
            rotation[2] = before.rotation[2] + YawStepOf(joystick_data.y_axis)
                            + m * 360 * DegUnit
    /\ (Updated /\ joystick_data.kind = "sample" /\ joystick_data.y_axis = 0
          /\ before.rotation[2] = 0) => rotation[2] = 358 * DegUnit
    /\ TurnYaw(359 * DegUnit, 1024) = DegUnit

C9_Witness ==
    /\ Updated
    /\ joystick_data.kind = "sample"
    /\ joystick_data.y_axis = 0
    /\ before.rotation[2] = 0
    /\ rotation[2] = 358 * DegUnit

(***************************************************************************)
(* Claims about the running program (specification Spec).                  *)
(***************************************************************************)
\* The call of update_from_joystick that has just run was given None.
NoSample == joystick_data.kind = "None"

\* C1: on a tick without a sample and with position.y > 0, the state
\* transition still lowers position.y by the fall rate, clamped at 0.
C1_GravityAlways ==
    (Updated /\ NoSample /\ before.position[2] > 0)
        => position[2] = Max(0, before.position[2] - FALL_RATE)

\* The quit signal has been seen by this tick's event poll.
QuitSeen == pc \in LoopPcs /\ ticks >= 1 /\ ~running

Shutdown == pc \in {"cleanup", "exited"}

\* C2: once a tick's event poll has found Quit or ESC, no serial line is
\* consumed, the actor state is not changed and no frame is drawn; and once
\* the loop is in Shutdown it stays there.
C2_QuitAtTop ==
    [][ /\ QuitSeen => /\ consumed' = consumed
                       /\ position' = position
                       /\ rotation' = rotation
                       /\ velocity' = velocity
                       /\ frames' = frames
        /\ Shutdown => Shutdown' ]_vars

IsPrefix(a, b) == Len(a) <= Len(b) /\ SubSeq(b, 1, Len(a)) = a

\* C5: a tick consumes at most one buffered line and applies at most one
\* sample; with k lines buffered, nothing arriving and the device present,
\* n reads consume min(n, k) lines; lines are consumed in the order they
\* arrived, and none is lost.
C5_OnePerTick ==
    /\ tick_reads <= 1
    /\ tick_applied <= 1
    /\ since.c = Min(since.n, since.k)
    /\ IsPrefix(consumed, arrived)
    /\ Len(arrived) = Len(consumed) + Len(buf_lines)

C5_Witness ==
    /\ since = [k |-> 2, n |-> 3, c |-> 2]
    /\ Len(consumed) = 2
    /\ consumed = arrived
    /\ consumed[1] # consumed[2]

\* C6: a call of the decoder never waits for bytes.
C6_NeverWaits == pc # "blocked"

\* C7: once the loop runs it never fails: a serial fault during a tick is
\* absorbed as "no sample", so no run that began a tick ends with the
\* failure status.
C7_LoopNeverFails == ticks >= 1 => exit_status # 1

\* C10: when the serial channel could not be opened, every tick's sample is
\* None, the actor state keeps its initial zero value, and the run ends, if
\* it ends, with status 0.
C10_NoChannel ==
    ser = "None" =>
        /\ joystick_data = None
        /\ position = Zero3 /\ rotation = Zero3 /\ velocity = Zero3
        /\ tick_applied = 0
        /\ exit_status \in {-1, 0}
        /\ pc = "exited" => exit_status = 0

C10_Witness ==
    /\ ser = "None"
    /\ pc = "exited"
    /\ exit_status = 0
    /\ ~running
    /\ frames >= 2
    /\ scene = "released"
    /\ position = Zero3

\* C11: on every path by which the running loop shuts down with status 0
\* (QUIT/ESC, or Ctrl-C), the mesh is released and the serial channel, if
\* it was opened, is closed before the process exits.
C11_ReleaseOnShutdown ==
    (pc = "exited" /\ ticks >= 1 /\ exit_status = 0)
        => (scene = "released" /\ ser # "open")

\* No step of the loop has been taken: no event poll, no serial read, no
\* state transition, no frame.
NothingRan ==
    /\ ticks = 0
    /\ frames = 0
    /\ since.n = 0
    /\ consumed = <<>>
    /\ tick_applied = 0
    /\ events = <<>>
    /\ position = Zero3 /\ rotation = Zero3 /\ velocity = Zero3

\* C12: with a model file that is missing, has no meshes or does not parse,
\* the run never gets past load_3d_model: nothing of the loop ever runs and
\* the channel is never opened; the failure status 1 before the first tick
\* comes from such a file and from nothing else (a run that ends with 0
\* there was cut short by Ctrl-C); a serial open failure never ends the
\* process with the failure status.
C12_FatalSetup ==
    /\ model_file # "ok" =>
         /\ pc \in {"load_model", "exited"}
         /\ scene = "unloaded"
         /\ ser = "unopened"
         /\ NothingRan
         /\ pc = "exited" => exit_status \in {0, 1}
    /\ (exit_status = 1 /\ ticks = 0) => (model_file # "ok" /\ pc = "exited")
    /\ ser = "None" => (model_file = "ok" /\ exit_status # 1 /\ scene # "unloaded")

C12_Witness ==
    /\ model_file = "no_meshes"
    /\ pc = "exited"
    /\ exit_status = 1
    /\ NothingRan

(***************************************************************************)
(* Claims about update_from_joystick (specification SpecAdvance).          *)
(***************************************************************************)
\* C13: a transition without a sample leaves position.x, position.z and
\* the three rotation angles as they were; position.y is the only field it
\* may change.
C13_NoSampleFrame ==
    (Updated /\ NoSample) =>
        /\ position[1] = before.position[1]
        /\ position[3] = before.position[3]
        /\ rotation = before.rotation
        /\ velocity = Zero3

C13_Witness ==
    /\ Updated
    /\ NoSample
    /\ before.position[1] = 1000
    /\ before.rotation[2] = 359 * DegUnit
    /\ position[1] = 1000
    /\ rotation[2] = 359 * DegUnit

\* The axis value is inside the deadzone: |axis - 512| / 512 < 0.1.
InDeadzone(axis) == axis \in 461..563

\* C14: a sample whose axis_x is in 461..563 leaves position.x unchanged
\* and one whose axis_y is in 461..563 leaves rotation.yaw unchanged,
\* whatever the button; outside the deadzone position.x changes by exactly
\* ((axis_x - 512) / 512) * MOVEMENT_SPEED.
C14_Deadzone ==
    (Updated /\ joystick_data.kind = "sample") =>
        /\ InDeadzone(joystick_data.x_axis) => position[1] = before.position[1]
        /\ InDeadzone(joystick_data.y_axis) => rotation[2] = before.rotation[2]
        /\ ~InDeadzone(joystick_data.x_axis) =>
             512 * (position[1] - before.position[1])
                = (joystick_data.x_axis - 512) * (PosUnit \div 10)

C14_Witness ==
    /\ Updated
    /\ joystick_data = Sample(563, 461, TRUE)
    /\ position[1] = before.position[1]
    /\ rotation[2] = before.rotation[2]
    /\ position[2] # before.position[2]

(***************************************************************************)
(* The loop on a buffered stream (specification SpecStream): main() is at  *)
(* the top of its loop in the state lines 365-378 leave, the channel is    *)
(* open and StreamLen lines are waiting in the receive buffer; nothing     *)
(* else arrives and no event is posted.                                    *)
(***************************************************************************)
StreamLen == 3

LineEmpty == <<>>
LineOutOfRange == <<"1", "0", "2", "4", ",", "5", "1", "2", ",", "0">>

StreamLines == LoopLines \cup {LineEmpty, LineOutOfRange}

InitStream ==
    /\ pc = "loop_test"
    /\ exit_status = -1
    /\ running = TRUE
    /\ scene = "loaded"
    /\ ser = "open"
    /\ device = "present"
    /\ buf_lines \in [1..StreamLen -> StreamLines]
    /\ buf_partial = <<>>
    /\ in_flight = NoFlight
    /\ events = <<>>
    /\ joystick_data = None
    /\ position = Zero3
    /\ rotation = Zero3
    /\ velocity = Zero3
    /\ ticks = 0
    /\ frames = 0
    /\ sent = <<>>
    /\ model_file = "ok"
    /\ arrived = buf_lines
    /\ consumed = <<>>
    /\ since = Changed(StreamLen)
    /\ n_arrivals = 0
    /\ posted = 0
    /\ tick_reads = 0
    /\ tick_applied = 0
    /\ before = [position |-> position, rotation |-> rotation]

NextStream ==
    \/ LoopTest
    \/ HandleEvents
    \/ ReadCheck
    \/ ReadLine
    \/ Update
    \/ Render

SpecStream == InitStream /\ [][NextStream]_vars

\* The first n lines of the stream are all the line l.
FirstAre(n, l) == n <= Len(arrived) /\ \A i \in 1..n : arrived[i] = l

\* C15: every tick whose sample has the button pressed raises position.y by
\* exactly JUMP_HEIGHT (0.2) and applies no fall, whatever the height; n
\* pressed ticks in a row from height 0 give n * 0.2, three of them 0.6.
C15_JumpStacks ==
    /\ (Updated /\ joystick_data.kind = "sample" /\ joystick_data.button_pressed)
          => position[2] = before.position[2] + JUMP_HEIGHT
    /\ \A n \in 1..StreamLen :
          (Updated /\ ticks = n /\ FirstAre(n, LinePressed))
              => 10 * position[2] = 2 * n * PosUnit

C15_Witness ==
    /\ Updated
    /\ ticks = 3
    /\ FirstAre(3, LinePressed)
    /\ before.position[2] = 2 * JUMP_HEIGHT
    /\ 10 * position[2] = 6 * PosUnit

\* The stream of the scenario: (612,512,pressed), (612,512,pressed),
\* (412,400,released), as the lines the joystick sends (button 0 = pressed).
Scenario == <<LinePressed, LinePressed, LineReleased>>

\* Tick n of the scenario has been applied.
ScenarioAt(n) == Updated /\ ticks = n /\ SubSeq(arrived, 1, 3) = Scenario

\* C16, as stated: x = 0.0195, y = 0.2 after tick 1; x = 0.039, y = 0.4
\* after tick 2; x = 0.0195, y = 0.35 after tick 3.
C16_AsStated ==
    /\ ScenarioAt(1) => (10000 * position[1] = 195 * PosUnit /\ 10 * position[2] = 2 * PosUnit)
    /\ ScenarioAt(2) => (1000 * position[1] = 39 * PosUnit /\ 10 * position[2] = 4 * PosUnit)
    /\ ScenarioAt(3) => (10000 * position[1] = 195 * PosUnit /\ 100 * position[2] = 35 * PosUnit)

\* C16, amended: from the zero state the scenario gives x = 100/512 * 0.1
\* (0.01953125), y = 0.2 after tick 1; x = 200/512 * 0.1 (0.0390625),
\* y = 0.4 after tick 2; x = 0.01953125, y = 0.35 after tick 3.
C16_Scenario ==
    /\ ScenarioAt(1) => (5120 * position[1] = 100 * PosUnit /\ 10 * position[2] = 2 * PosUnit)
    /\ ScenarioAt(2) => (5120 * position[1] = 200 * PosUnit /\ 10 * position[2] = 4 * PosUnit)
    /\ ScenarioAt(3) => (5120 * position[1] = 100 * PosUnit /\ 100 * position[2] = 35 * PosUnit)

C16_Witness ==
    /\ ScenarioAt(3)
    /\ frames = 2
    /\ 5120 * position[1] = 100 * PosUnit
    /\ 100 * position[2] = 35 * PosUnit

\* What a line of the stream is to the decoder: the sample it carries, or
\* None for a line it rejects.
Carries(l) ==
    IF l = LinePressed THEN Sample(612, 512, TRUE)
    ELSE IF l = LineReleased THEN Sample(412, 400, FALSE)
    ELSE IF l = LineButton2 THEN Sample(512, 0, FALSE)
    ELSE None

Invalid(l) == l \in {LineGarbage, LineEmpty, LineOutOfRange}

\* The read of the current tick has returned.
ReadDone == pc \in {"update", "render"}

\* C17: a malformed, empty or out-of-range line is removed from the buffer
\* by the call that rejects it and is not read again: the read of tick t
\* takes line t of the stream and nothing else, and hands over what that
\* line carries; so a valid line behind k invalid lines is applied on tick
\* k + 1, and ticks 1..k apply nothing.
C17_DiscardsProgress ==
    /\ (ReadDone /\ ticks <= Len(arrived)) =>
          /\ consumed = SubSeq(arrived, 1, ticks)
          /\ buf_lines = SubSeq(arrived, ticks + 1, Len(arrived))
          /\ joystick_data = Carries(arrived[ticks])
    /\ \A k \in 0..(StreamLen - 1) :
          (/\ Updated
           /\ \A i \in 1..k : Invalid(arrived[i])
           /\ ~Invalid(arrived[k + 1]))
             => /\ ticks <= k => (tick_applied = 0 /\ position = Zero3 /\ rotation = Zero3)
                /\ ticks = k + 1 =>
                     /\ tick_applied = 1
                     /\ joystick_data = Carries(arrived[k + 1])
                     /\ position = UpdateFromJoystick(Zero3, Zero3, Carries(arrived[k + 1])).position

C17_Witness ==
    /\ Updated
    /\ ticks = 3
    /\ arrived[1] = LineGarbage
    /\ arrived[2] = LineOutOfRange
    /\ arrived[3] = LinePressed
    /\ joystick_data = Sample(612, 512, TRUE)
    /\ tick_applied = 1
    /\ buf_lines = SubSeq(arrived, 4, Len(arrived))
    /\ position[2] = JUMP_HEIGHT

(***************************************************************************)
(* Claims about the end of the run and the untouched fields                *)
(* (specification Spec).                                                   *)
(***************************************************************************)
\* C18: once the event poll of a tick has found Quit or ESC, the loop ends
\* at the end of that tick and the cleanup runs to completion: the run ends
\* with status 0, the mesh released and the channel, if it was opened,
\* closed.
C18_QuitEndsClean ==
    (pc = "exited" /\ ticks >= 1 /\ ~running)
        => (exit_status = 0 /\ scene = "released" /\ ser # "open")

\* The frame of the current tick has been drawn.
Drawn == pc = "loop_test" /\ ticks >= 1 /\ frames = ticks

\* C19: position.z, rotation.pitch, rotation.roll and the three velocity
\* components are 0 in every reachable state, and the render step changes
\* no field of the actor: after the frame is drawn position and rotation
\* are what update_from_joystick left.
C19_Untouched ==
    /\ position[3] = 0
    /\ rotation[1] = 0
    /\ rotation[3] = 0
    /\ velocity = Zero3
    /\ Drawn =>
         LET new == UpdateFromJoystick(before.position, before.rotation, joystick_data)
         IN  position = new.position /\ rotation = new.rotation

C19_Witness ==
    /\ Drawn
    /\ ticks >= 2
    /\ position[1] # 0
    /\ position[2] # 0
    /\ rotation[2] # 0
    /\ position[3] = 0
    /\ rotation[1] = 0
    /\ rotation[3] = 0
    /\ velocity = Zero3

=============================================================================
